---- MODULE Spec2Model ----
(***************************************************************************)
(* Flash-loan split/merge arbitrage contracts of FlashPendle.              *)
(*                                                                         *)
(* Two contracts share one execution sequence and differ in the lending    *)
(* source: ArbPendleSplitMerge (Balancer vault, callback receiveFlashLoan) *)
(* and ArbPendleSplitMergeAave (Aave pool, callback executeOperation).     *)
(* One behaviour of this module follows one deployed contract; `variant`   *)
(* says which.  A transaction is modelled step by step (one action per     *)
(* external call or check of the callback); `snap` holds the ledger state  *)
(* at the start of the transaction and a revert restores it.  The state a  *)
(* transaction ends in keeps its call, the step it ended at and its        *)
(* outcome until EndTransaction.                                           *)
(*                                                                         *)
(* The lender, the router, the yield token and the market are external     *)
(* systems: they are modelled from the interfaces the contracts call, with *)
(* the amounts they return chosen nondeterministically.                    *)
(***************************************************************************)
EXTENDS Integers, FiniteSets, Sequences, TLC

\* ---------------------------------------------------------------- bounds
\* Largest amount borrowed or asked to be cycled; the external systems pay
\* amounts up to MaxAmt + 1.
MaxAmt == 1
\* Largest fee (Balancer) or premium (Aave) the lender charges.
MaxFee == 1
\* Largest underlying balance third parties send to the contract unasked.
MaxDust == 1
\* Reserves and sizes of the price model are tried from 0 up to these.
MaxReserve == 6
MaxSize == 6
\* The scanner is run on lists of up to this many markets.
MaxMarkets == 3
\* The market API answers with up to this many markets.
MaxApiMarkets == 2
\* runLoop is followed for this many polling cycles.
MaxCycles == 2

\* ------------------------------------------------------------- constants
\* type(uint256).max; TLC integers are 32 bits wide, so the model uses a
\* value above every amount it can move.
MaxUint256 == 2^30 - 1

THIS == "this"          \* address(this)
VAULT == "vault"        \* immutable VAULT (Balancer variant)
POOL == "pool"          \* IPoolAddressesProvider(ADDRESSES_PROVIDER).getPool()
ROUTER == "router"      \* immutable ROUTER
YTADDR == "yt"          \* p.yt
MARKET == "market"      \* p.market
ZERO == "0x0"           \* address(0)
DEPLOYER == "alice"     \* msg.sender of the constructor
ROGUE == "rogue"        \* an address that is none of the above

Users == {"alice", "bob"}
Accounts == {THIS, VAULT, POOL} \cup Users
Amounts == 0..(MaxAmt + 1)
Tokens == {"U", "SY", "PT", "YT"}
Spenders == {YTADDR, MARKET, ROUTER, POOL, ROGUE}

\* struct ArbParams.  vault is the lender field (pool in the Aave variant);
\* underlying, yt and market are the addresses of U, YTADDR and MARKET.
ArbParams == [vault : {VAULT, POOL, ROGUE},
              router : {ROUTER, ROGUE},
              flashAmount : 1..MaxAmt,
              pyToCycle : 0..MaxAmt,
              minUnderlyingOut : 0..(MaxAmt + 1)]

\* frame holds the call (fn, caller and its arguments) and the callback's
\* arguments and locals.  A local, and the parameter pyToCycle, is kept from
\* its assignment to its last use and is 0 outside; syInForBuy and
\* syFromRedeem, which the code never reads, are not kept.
\* frame.buyCostMore records syInForBuy > syOutFromSell, and frame.achievable
\* what the router could pay in step 6, whether or not it paid.
\* frame.syNet adds up, from step 1 to step 5, the wrapper the external calls
\* reported: syReceived - syToMint + syOutFromSell - syInForBuy + syFromRedeem.
VARIABLES
  variant,   \* "Balancer" or "Aave": which contract is deployed
  owner,     \* address public owner
  bal,       \* bal[t][a]: balance of account a in token t; for the lender and
             \* the users, counted from the start of the transaction
  allow,     \* allow[t][s]: allowance the contract has granted spender s on t
  expired,   \* what IPYieldToken(p.yt).isExpired() returns
  pc,        \* the step the transaction is at, or ended at; "idle" between
             \* transactions
  frame,     \* arguments and locals of the callback in progress
  snap,      \* owner, bal, allow at the start of the transaction
  outcome,   \* "none" between transactions, "pending" while one runs,
             \* then how it ended
  keeper,    \* the off-chain keeper: the call in progress, its arguments
             \* and what it returned
  loop       \* the keeper's process: where main and runLoop stand, the
             \* fields of PendleArbKeeper and the locals of the cycle

vars ==
  <<variant, owner, bal, allow, expired, pc, frame, snap, outcome, keeper,
    loop>>

\* The state of the contract and of the chain around it.
chain == <<variant, owner, bal, allow, expired, pc, frame, snap, outcome>>

NoParams == [vault |-> ZERO, router |-> ZERO,
             flashAmount |-> 0, pyToCycle |-> 0, minUnderlyingOut |-> 0]

NoFrame == [fn |-> "none", caller |-> ZERO,
            newOwner |-> ZERO, token |-> "U", amount |-> 0,
            msgSender |-> ZERO, initiator |-> ZERO, p |-> NoParams,
            flashAmt |-> 0, fee |-> 0, syReceived |-> 0, cycle |-> 0,
            syOutFromSell |-> 0, buyCostMore |-> FALSE,
            achievable |-> 0, underlyingOut |-> 0, syNet |-> 0]

\* The lending source the deployed contract borrows from.
Lender == IF variant = "Balancer" THEN VAULT ELSE POOL

\* The parameters the keeper builds: their lender and router fields name the
\* lender and the router of the deployed contract.
DeployedParams ==
  [vault : {Lender},
   router : {ROUTER},
   flashAmount : 1..MaxAmt,
   pyToCycle : 0..MaxAmt,
   minUnderlyingOut : 0..(MaxAmt + 1)]

\* ---------------------------------------------------------------- ERC20
Credit(b, t, a, amt) == [b EXCEPT ![t][a] = @ + amt]
Debit(b, t, a, amt) == [b EXCEPT ![t][a] = @ - amt]
Transfer(b, t, from, to, amt) == Credit(Debit(b, t, from, amt), t, to, amt)
Approve(al, t, s, amt) == [al EXCEPT ![t][s] = amt]
\* transferFrom leaves an unlimited allowance as it is.
Spend(al, t, s, amt) ==
  IF al[t][s] = MaxUint256 THEN al ELSE [al EXCEPT ![t][s] = @ - amt]

Min(a, b) == IF a < b THEN a ELSE b

\* ----------------------------------------------------------- the keeper
\* Amounts of the keeper are whole numbers of the token's smallest unit, as
\* in the code (bigint), and every formula is the code's.  TLC integers are
\* 32 bits wide, so the inputs are small: reserves up to MaxReserve and a few
\* larger ones, the product of two reserves staying below 2^31.  The two
\* magnitudes of the code are scaled down, each by its own factor: the
\* ladder by 10^18 (10 for 10 ether), the gas estimate by 10^13 (5 for
\* 5 * 10^13 wei), so that the gas estimate stays above zero and below the
\* profits of the ladder.

\* gasEstimate: 500000 gas at 0.1 gwei = 5 * 10^13 wei, scaled by 10^13.
gasEstimate == 5

\* config.minProfitBps when MIN_PROFIT_BPS is not set.
minProfitBps == 15

\* testSizes: 10, 100, 1000 and 10000 ether, scaled by 10^18.
testSizes == <<10, 100, 1000, 10000>>

\* Reserves a market is read with.
SampleReserves == {30, 48, 176, 500, 1000, 2041, 20000, 30000, 40000, 45000}
Reserves == (0..MaxReserve) \cup SampleReserves

\* Sizes calculateArbProfit is called with.
Sizes == (0..MaxSize) \cup {testSizes[i] : i \in DOMAIN testSizes}

\* What the keeper reads of a market: totalSy and totalPt of readState, or
\* nothing when the read fails (readable = FALSE).
MarketStates == [sy : Reserves, pt : Reserves, readable : BOOLEAN]

\* Markets the scanner is run on.
SampleMarkets ==
  {[sy |-> 40000, pt |-> 40000, readable |-> TRUE],
   [sy |-> 40000, pt |-> 20000, readable |-> TRUE],
   [sy |-> 40000, pt |-> 20000, readable |-> FALSE],
   [sy |-> 45000, pt |-> 30000, readable |-> TRUE],
   [sy |-> 1000, pt |-> 500, readable |-> TRUE],
   [sy |-> 176, pt |-> 30, readable |-> TRUE],
   [sy |-> 48, pt |-> 1, readable |-> TRUE]}

\* Values of config.minProfitBps.
Thresholds == {0, minProfitBps, 5000}

\* What calculateArbProfit returns: null (found = FALSE) or profitBps and
\* expectedProfit; with it, the place it returned at and the locals it had
\* computed by then.
Result(found, at, sell, buy, net, bps, profit) ==
  [found |-> found, at |-> at, syFromSell |-> sell, syForBuy |-> buy,
   netProfit |-> net, profitBps |-> bps, expectedProfit |-> profit]

\* PT -> SY swap (sell PT) on the constant product.
syFromSell(syReserve, ptReserve, testSize) ==
  LET k == syReserve * ptReserve
      newPtReserve == ptReserve + testSize
      newSyReserveAfterSell == k \div newPtReserve
  IN syReserve - newSyReserveAfterSell

\* Mutant of syForBuy: the 2% are taken off the size.
syForBuyDiscount(syReserve, ptReserve, testSize) ==
  LET newSyReserveAfterSell == (syReserve * ptReserve) \div (ptReserve + testSize)
      newSyReserveForBuy == newSyReserveAfterSell + ((testSize * 98) \div 100)
  IN newSyReserveForBuy - newSyReserveAfterSell

\* SY -> PT swap (buy PT): the size with 2% slippage.
syForBuy(syReserve, ptReserve, testSize) ==
  LET newSyReserveAfterSell == (syReserve * ptReserve) \div (ptReserve + testSize)
      newSyReserveForBuy == newSyReserveAfterSell + ((testSize * 102) \div 100)
  IN newSyReserveForBuy - newSyReserveAfterSell

\* Mint/redeem costs, 0.2% in total.
mintRedeemCost(testSize) == (testSize * 20) \div 10000

\* Mutant of calculateArbProfit: the estimate after gas is returned whatever
\* its sign.
calculateArbProfitNoGasCheck(market, testSize) ==
  IF ~market.readable
  THEN Result(FALSE, "read", 0, 0, 0, 0, 0)
  ELSE IF market.pt + testSize = 0
  THEN Result(FALSE, "error", 0, 0, 0, 0, 0)
  ELSE
    LET sell == syFromSell(market.sy, market.pt, testSize)
        buy == syForBuy(market.sy, market.pt, testSize)
        syProfit == sell - buy
        netProfit == IF syProfit > mintRedeemCost(testSize)
                     THEN syProfit - mintRedeemCost(testSize) ELSE 0
    IN IF sell <= buy
       THEN Result(FALSE, "spread", sell, buy, 0, 0, 0)
       ELSE IF netProfit = 0
       THEN Result(FALSE, "cost", sell, buy, 0, 0, 0)
       ELSE Result(TRUE, "end", sell, buy, netProfit,
                   (netProfit * 10000) \div testSize, netProfit - gasEstimate)

\* calculateArbProfit(market, testSize).  A failed read of the market, and
\* the division by zero of an empty pool with size 0, end in the catch
\* blocks, which return null.  profitBps is Number() of a bigint; the values
\* here are far below 2^53, where the conversion is exact.
calculateArbProfit(market, testSize) ==
  IF ~market.readable
  THEN Result(FALSE, "read", 0, 0, 0, 0, 0)
  ELSE IF market.pt + testSize = 0
  THEN Result(FALSE, "error", 0, 0, 0, 0, 0)
  ELSE
    LET sell == syFromSell(market.sy, market.pt, testSize)
        buy == syForBuy(market.sy, market.pt, testSize)
        syProfit == sell - buy
        netProfit == IF syProfit > mintRedeemCost(testSize)
                     THEN syProfit - mintRedeemCost(testSize) ELSE 0
        profitBps == (netProfit * 10000) \div testSize
        expectedProfit == netProfit - gasEstimate
    IN IF sell <= buy
       THEN Result(FALSE, "spread", sell, buy, 0, 0, 0)
       ELSE IF netProfit = 0
       THEN Result(FALSE, "cost", sell, buy, 0, 0, 0)
       ELSE IF expectedProfit <= 0
       THEN Result(FALSE, "gas", sell, buy, netProfit, profitBps, 0)
       ELSE Result(TRUE, "end", sell, buy, netProfit, profitBps, expectedProfit)

\* The ArbOpportunity built from a result.
Opportunity(market, size, result) ==
  [market |-> market.address, profitBps |-> result.profitBps,
   optimalSize |-> size, expectedProfit |-> result.expectedProfit]

\* Mutant of bestOpp: a later size with the same expectedProfit replaces the
\* earlier one.
RECURSIVE bestOppLastOnTie(_, _, _, _)
bestOppLastOnTie(market, threshold, i, best) ==
  IF i > Len(testSizes)
  THEN best
  ELSE LET size == testSizes[i]
           result == calculateArbProfit(market, size)
           opp == Opportunity(market, size, result)
           better == /\ result.found
                     /\ result.profitBps >= threshold
                     /\ \/ best = <<>>
                        \/ opp.expectedProfit >= best[1].expectedProfit
       IN bestOppLastOnTie(market, threshold, i + 1,
                           IF better THEN <<opp>> ELSE best)

\* The inner loop of findArbOpportunities from the i-th size on: bestOpp of
\* the market, <<>> for null.
RECURSIVE bestOpp(_, _, _, _)
bestOpp(market, threshold, i, best) ==
  IF i > Len(testSizes)
  THEN best
  ELSE LET size == testSizes[i]
           result == calculateArbProfit(market, size)
           opp == Opportunity(market, size, result)
           better == /\ result.found
                     /\ result.profitBps >= threshold
                     /\ \/ best = <<>>
                        \/ opp.expectedProfit > best[1].expectedProfit
       IN bestOpp(market, threshold, i + 1, IF better THEN <<opp>> ELSE best)

\* The comparison function handed to sort.
compare(a, b) ==
  IF a.expectedProfit > b.expectedProfit THEN 0 - 1
  ELSE IF a.expectedProfit < b.expectedProfit THEN 1
  ELSE 0

\* Mutant of insert: an element goes before those it compares equal to.
RECURSIVE insertBeforeEqual(_, _)
insertBeforeEqual(sorted, x) ==
  IF sorted = <<>> THEN <<x>>
  ELSE IF compare(x, Head(sorted)) <= 0 THEN <<x>> \o sorted
  ELSE <<Head(sorted)>> \o insertBeforeEqual(Tail(sorted), x)

\* Array.prototype.sort is stable: an element goes behind those it does not
\* compare less than.
RECURSIVE insert(_, _)
insert(sorted, x) ==
  IF sorted = <<>> THEN <<x>>
  ELSE IF compare(x, Head(sorted)) < 0 THEN <<x>> \o sorted
  ELSE <<Head(sorted)>> \o insert(Tail(sorted), x)

\* opportunities.sort(compare)
RECURSIVE sort(_)
sort(list) ==
  IF list = <<>> THEN <<>>
  ELSE insert(sort(SubSeq(list, 1, Len(list) - 1)), list[Len(list)])

\* Mutant of opportunities: a market that cannot be read ends the scan.
RECURSIVE opportunitiesAbortOnFailure(_, _, _)
opportunitiesAbortOnFailure(markets, threshold, i) ==
  IF i > Len(markets) \/ ~markets[i].readable
  THEN <<>>
  ELSE bestOpp(markets[i], threshold, 1, <<>>)
         \o opportunitiesAbortOnFailure(markets, threshold, i + 1)

\* The outer loop of findArbOpportunities from the i-th market on.
RECURSIVE opportunities(_, _, _)
opportunities(markets, threshold, i) ==
  IF i > Len(markets)
  THEN <<>>
  ELSE bestOpp(markets[i], threshold, 1, <<>>)
         \o opportunities(markets, threshold, i + 1)

\* findArbOpportunities(markets) under config.minProfitBps = threshold.
findArbOpportunities(markets, threshold) ==
  sort(opportunities(markets, threshold, 1))

\* A market of the list: what is read of it and its address, which here is
\* its place in the list.
MarketList(states) ==
  [i \in DOMAIN states |->
     [address |-> i, sy |-> states[i].sy, pt |-> states[i].pt,
      readable |-> states[i].readable]]

\* The keeper between two calls.
KeeperIdle ==
  [fn |-> "none",
   market |-> [sy |-> 0, pt |-> 0, readable |-> FALSE], testSize |-> 0,
   result |-> Result(FALSE, "none", 0, 0, 0, 0, 0),
   markets |-> <<>>, threshold |-> 0, found |-> <<>>]

\* -------------------------------------------------- the keeper's process
\* Validate the market has reasonable liquidity (min $100k).
minLiquidityUsd == 100000

\* Markets the API answers with.  apiExpired: the expiry date of the answer
\* is not after now; usd: the liquidity of the answer; ytExpired: what the
\* yield token's isExpired() says; queryFails: the call of isExpired() fails;
\* sy, pt, readable: what calculateArbProfit will read of the market.
ApiSamples ==
  {[apiExpired |-> FALSE, usd |-> 100000, ytExpired |-> FALSE,
    queryFails |-> FALSE, sy |-> 1000, pt |-> 500, readable |-> TRUE],
   [apiExpired |-> FALSE, usd |-> 5000000, ytExpired |-> FALSE,
    queryFails |-> TRUE, sy |-> 45000, pt |-> 30000, readable |-> TRUE],
   [apiExpired |-> TRUE, usd |-> 5000000, ytExpired |-> TRUE,
    queryFails |-> FALSE, sy |-> 40000, pt |-> 20000, readable |-> TRUE],
   [apiExpired |-> FALSE, usd |-> 5000000, ytExpired |-> TRUE,
    queryFails |-> FALSE, sy |-> 40000, pt |-> 20000, readable |-> TRUE],
   [apiExpired |-> FALSE, usd |-> 5000000, ytExpired |-> TRUE,
    queryFails |-> TRUE, sy |-> 40000, pt |-> 20000, readable |-> TRUE],
   [apiExpired |-> FALSE, usd |-> 99999, ytExpired |-> FALSE,
    queryFails |-> FALSE, sy |-> 40000, pt |-> 20000, readable |-> TRUE]}

\* The answers of the API: lists of up to MaxApiMarkets markets.
ApiResults == UNION {[1..n -> ApiSamples] : n \in 0..MaxApiMarkets}

\* The MarketData built from the i-th market of the answer; its address is
\* its place in the answer.
Market(api, i) ==
  [address |-> i, sy |-> api[i].sy, pt |-> api[i].pt,
   readable |-> api[i].readable]

\* Mutant of Active: the liquidity is not looked at.
ActiveAnyLiquidity(d) ==
  /\ ~d.apiExpired
  /\ d.queryFails \/ ~d.ytExpired

\* The checks of fetchActiveMarkets on one market of the answer: the expiry
\* date, the liquidity, then isExpired() of the yield token; when that call
\* fails the market is included anyway.
Active(d) ==
  /\ ~d.apiExpired
  /\ ~(d.usd < minLiquidityUsd)
  /\ d.queryFails \/ ~d.ytExpired

\* The loop of fetchActiveMarkets from the i-th market of the answer on.
RECURSIVE activeMarkets(_, _)
activeMarkets(api, i) ==
  IF i > Len(api)
  THEN <<>>
  ELSE (IF Active(api[i]) THEN <<Market(api, i)>> ELSE <<>>)
         \o activeMarkets(api, i + 1)

\* fetchActiveMarkets(): the active markets of the answer, or the empty list
\* when the request fails.
fetchActiveMarkets(api, fails) ==
  IF fails THEN <<>> ELSE activeMarkets(api, 1)

\* config.maxFlashAmount when MAX_FLASH_AMOUNT is not set: 1000000 ether, on
\* the scale of the ladder.
defaultMaxFlashAmount == 1000000

\* Values of MAX_FLASH_AMOUNT: the default, and one inside the ladder.
MaxFlashAmounts == {defaultMaxFlashAmount, testSizes[2]}

\* The process before main has done anything.
LoopNew ==
  [pc |-> "initialize", isRunning |-> FALSE, cycle |-> 0,
   maxFlashAmount |-> defaultMaxFlashAmount,
   api |-> <<>>, markets |-> <<>>, opportunities |-> <<>>, best |-> <<>>,
   params |-> <<>>, attempts |-> 0, pending |-> 0, failed |-> FALSE,
   opportunitiesFound |-> 0, executedTrades |-> 0,
   stopCalled |-> FALSE, cycleAfterStop |-> FALSE]

\* ----------------------------------------------------------------- Init
Init ==
  /\ variant \in {"Balancer", "Aave"}
  /\ owner = DEPLOYER
  /\ bal = [t \in Tokens |->
             [a \in Accounts |-> 0]]
  /\ allow = [t \in Tokens |-> [s \in Spenders |-> 0]]
  /\ expired = FALSE
  /\ pc = "idle"
  /\ frame = NoFrame
  /\ snap = [owner |-> owner, bal |-> bal, allow |-> allow]
  /\ outcome = "none"
  /\ keeper = KeeperIdle
  /\ loop = LoopNew

Running == outcome = "pending"
Done == outcome \notin {"none", "pending"}

\* The transaction ends with the ledger as given.  The state it ends in
\* still shows the call, in frame, the step it ended at, in pc, and the
\* ledger before it, in snap.
Finish(kind, o, b, al) ==
  /\ owner' = o
  /\ bal' = b
  /\ allow' = al
  /\ outcome' = kind
  /\ UNCHANGED snap

\* Mutant of Revert: the allowances granted so far survive the revert.
RevertKeepsAllowances(kind) == Finish(kind, snap.owner, snap.bal, allow)

\* revert: every effect of the transaction is undone.
Revert(kind) == Finish(kind, snap.owner, snap.bal, snap.allow)

\* A step of the callback reverts: the transaction ends at that step.
Fail(kind) == Revert(kind) /\ UNCHANGED pc

\* The transaction returns normally: its effects stay.
Commit == Finish("success", owner, bal, allow) /\ UNCHANGED pc

\* The record of a call of entry point fn by caller.
Call(fn, caller) == [NoFrame EXCEPT !.fn = fn, !.caller = caller]

\* ---------------------------------------------------------- the lender
\* Mutant of FlashLoan: the loan is asked of the lender the parameters name.
FlashLoanFromParams(fn, caller, who, p, lenderFee) ==
  /\ bal' = IF p.vault = Lender
            THEN Transfer(bal, "U", Lender, THIS, p.flashAmount)
            ELSE Credit(bal, "U", THIS, p.flashAmount)
  /\ frame' = [Call(fn, caller) EXCEPT !.msgSender = p.vault, !.initiator = who,
                                       !.p = p, !.flashAmt = p.flashAmount,
                                       !.fee = lenderFee]
  /\ pc' = "authorize"
  /\ outcome' = "pending"
  /\ UNCHANGED <<owner, allow, snap>>

\* IVault.flashLoan / IPool.flashLoanSimple: the lender sends the amount to
\* the contract and calls its callback.  `who` asked for the loan.
FlashLoan(fn, caller, who, p, lenderFee) ==
  /\ bal' = Transfer(bal, "U", Lender, THIS, p.flashAmount)
  /\ frame' = [Call(fn, caller) EXCEPT !.msgSender = Lender, !.initiator = who,
                                       !.p = p, !.flashAmt = p.flashAmount,
                                       !.fee = lenderFee]
  /\ pc' = "authorize"
  /\ outcome' = "pending"
  /\ UNCHANGED <<owner, allow, snap>>

\* -------------------------------------------------------- entry points
\* Mutant of onlyOwner: the caller is compared with the deployer.
onlyOwnerIsDeployer(caller) == caller = DEPLOYER

\* modifier onlyOwner
onlyOwner(caller) == caller = owner

\* executeArb(p) called by `caller`.
executeArb(caller, p, lenderFee) ==
  /\ pc = "idle"
  /\ IF ~onlyOwner(caller)
     THEN /\ Revert("NotOwner")
          /\ frame' = [Call("executeArb", caller) EXCEPT !.p = p]
          /\ pc' = "entry"
     ELSE FlashLoan("executeArb", caller, THIS, p, lenderFee)
  /\ UNCHANGED <<keeper, loop, variant, expired>>

\* Mutant of updateOwner: the new owner is not compared with address(0).
updateOwnerNoZeroCheck(caller, newOwner) ==
  /\ pc = "idle"
  /\ frame' = [Call("updateOwner", caller) EXCEPT !.newOwner = newOwner]
  /\ pc' = "entry"
  /\ IF ~onlyOwner(caller)
     THEN Revert("NotOwner")
     ELSE Finish("success", newOwner, bal, allow)
  /\ UNCHANGED <<keeper, loop, variant, expired>>

\* updateOwner(newOwner) called by `caller`.
updateOwner(caller, newOwner) ==
  /\ pc = "idle"
  /\ frame' = [Call("updateOwner", caller) EXCEPT !.newOwner = newOwner]
  /\ pc' = "entry"
  /\ IF ~onlyOwner(caller)
     THEN Revert("NotOwner")
     ELSE IF newOwner = ZERO
          THEN Revert("InvalidOwner")
          ELSE Finish("success", newOwner, bal, allow)
  /\ UNCHANGED <<keeper, loop, variant, expired>>

\* rescueToken(token, amount) called by `caller`.
rescueToken(caller, token, amount) ==
  /\ pc = "idle"
  /\ frame' = [Call("rescueToken", caller) EXCEPT !.token = token,
                                                  !.amount = amount]
  /\ pc' = "entry"
  /\ IF ~onlyOwner(caller)
     THEN Revert("NotOwner")
     ELSE IF bal[token][THIS] < amount
          THEN Revert("TransferFailed")
          ELSE Finish("success", owner,
                      Transfer(bal, token, THIS, owner, amount), allow)
  /\ UNCHANGED <<keeper, loop, variant, expired>>

\* A user calls the callback (receiveFlashLoan / executeOperation) directly,
\* with arguments of their choice: the declared initiator, the fee or
\* premium, and the encoded parameters (the amount is the parameters'
\* flashAmount).
DirectCallback(caller, initiator, premium, p) ==
  /\ pc = "idle"
  /\ frame' = [Call("callback", caller) EXCEPT
                 !.msgSender = caller, !.initiator = initiator,
                 !.p = p, !.flashAmt = p.flashAmount, !.fee = premium]
  /\ pc' = "authorize"
  /\ outcome' = "pending"
  /\ UNCHANGED <<keeper, loop, variant, owner, bal, allow, expired, snap>>

\* A user asks the lender for a flash loan and names the contract as the
\* recipient; the lender then calls the contract's callback.
ThirdPartyFlashLoan(caller, p, lenderFee) ==
  /\ pc = "idle"
  /\ FlashLoan("flashLoan", caller, caller, p, lenderFee)
  /\ UNCHANGED <<keeper, loop, variant, expired>>

\* ---------------------------------------------------------- environment
\* Anybody may send a token to the contract: the underlying, or the wrapper.
Donate(t) ==
  /\ pc = "idle"
  /\ bal["U"][THIS] + bal["SY"][THIS] < MaxDust
  /\ bal' = Credit(bal, t, THIS, 1)
  /\ snap' = [snap EXCEPT !.bal = bal']
  /\ UNCHANGED <<keeper, loop, variant, owner, allow, expired, pc, frame, outcome>>

\* The yield token passes its expiry.
Expire ==
  /\ pc = "idle"
  /\ ~expired
  /\ expired' = TRUE
  /\ UNCHANGED <<keeper, loop, variant, owner, bal, allow, pc, frame, snap, outcome>>

\* The transaction is over; the next one starts from the ledger it left.
\* The balances of the lender and the users are counted anew.
EndTransaction ==
  /\ Done
  /\ pc' = "idle"
  /\ frame' = NoFrame
  /\ outcome' = "none"
  /\ bal' = [t \in Tokens |->
              [a \in Accounts |-> IF a = THIS THEN bal[t][a] ELSE 0]]
  /\ snap' = [owner |-> owner, bal |-> bal', allow |-> allow]
  /\ UNCHANGED <<keeper, loop, variant, owner, allow, expired>>

\* ------------------------------------------------- the callback, by step
\* Mutant of AuthorizedBalancer: any caller but address(0) is accepted.
AuthorizedBalancerAnyCaller == frame.msgSender # ZERO

\* receiveFlashLoan: if (msg.sender != VAULT) revert NotVault();
AuthorizedBalancer == frame.msgSender = VAULT

\* Mutant of AuthorizedAave: the initiator alone is checked.
AuthorizedAaveInitiatorOnly == frame.initiator = THIS

\* executeOperation: the initiator is the contract and the caller is the
\* pool the addresses provider returns.
AuthorizedAave == frame.initiator = THIS /\ frame.msgSender = POOL

\* The caller check at the head of the callback.
Authorized ==
  IF variant = "Balancer" THEN AuthorizedBalancer ELSE AuthorizedAave

\* The error the caller check raises.
\* Mutant of AuthError: the two variants raise each other's error.
AuthErrorSwapped == IF variant = "Balancer" THEN "Unauthorized" ELSE "NotVault"

AuthError == IF variant = "Balancer" THEN "NotVault" ELSE "Unauthorized"

Authorize ==
  /\ pc = "authorize" /\ Running
  /\ IF ~Authorized
     THEN Fail(AuthError)
     ELSE /\ pc' = "expiry"
          /\ UNCHANGED <<owner, bal, allow, snap, outcome>>
  /\ UNCHANGED <<keeper, loop, variant, expired, frame>>

\* Mutant of ExpiryCheck: the test is inverted.
ExpiryCheckInverted ==
  /\ pc = "expiry" /\ Running
  /\ IF ~expired
     THEN Fail("Expired")
     ELSE /\ pc' = "approve"
          /\ UNCHANGED <<owner, bal, allow, snap, outcome>>
  /\ UNCHANGED <<keeper, loop, variant, expired, frame>>

\* if (YT.isExpired()) revert Expired();
ExpiryCheck ==
  /\ pc = "expiry" /\ Running
  /\ IF expired
     THEN Fail("Expired")
     ELSE /\ pc' = "approve"
          /\ UNCHANGED <<owner, bal, allow, snap, outcome>>
  /\ UNCHANGED <<keeper, loop, variant, expired, frame>>

\* Mutant of MaxApprovals: the router is not approved for the wrapper.
MaxApprovalsNoRouterSy(al) ==
  [al EXCEPT !["SY"][YTADDR] = MaxUint256,
             !["PT"][YTADDR] = MaxUint256,
             !["PT"][MARKET] = MaxUint256,
             !["SY"][MARKET] = MaxUint256,
             !["U"][ROUTER] = MaxUint256]

\* The six approvals of type(uint256).max.
MaxApprovals(al) ==
  [al EXCEPT !["SY"][YTADDR] = MaxUint256,
             !["PT"][YTADDR] = MaxUint256,
             !["PT"][MARKET] = MaxUint256,
             !["SY"][MARKET] = MaxUint256,
             !["SY"][ROUTER] = MaxUint256,
             !["U"][ROUTER] = MaxUint256]

Approvals ==
  /\ pc = "approve" /\ Running
  /\ allow' = MaxApprovals(allow)
  /\ pc' = "convert"
  /\ UNCHANGED <<keeper, loop, variant, owner, bal, expired, frame, snap, outcome>>

\* minSyOut passed to mintSyFromToken.
MinSyOut == 0

\* Step 1: IPendleRouter.mintSyFromToken: the router takes netTokenIn of the
\* underlying from the contract and pays syOut of SY.
Convert(syOut) ==
  /\ pc = "convert" /\ Running
  /\ IF bal["U"][THIS] < frame.flashAmt
     THEN Fail("TransferFailed") /\ UNCHANGED frame
     ELSE IF allow["U"][ROUTER] < frame.flashAmt
     THEN Fail("InsufficientAllowance") /\ UNCHANGED frame
     ELSE IF syOut < MinSyOut
          THEN Fail("RouterMinSyOut") /\ UNCHANGED frame
          ELSE /\ bal' = Credit(Debit(bal, "U", THIS, frame.flashAmt),
                                "SY", THIS, syOut)
               /\ allow' = Spend(allow, "U", ROUTER, frame.flashAmt)
               /\ frame' = [frame EXCEPT !.syReceived = syOut, !.syNet = syOut]
               /\ pc' = "split"
               /\ UNCHANGED <<owner, snap, outcome>>
  /\ UNCHANGED <<keeper, loop, variant, expired>>

\* Mutant of SplitMint: the cycle amount is the requested one, whatever was
\* minted.
SplitMintNoReclamp(pyMinted) ==
  /\ pc = "split" /\ Running
  /\ LET syToMint == Min(frame.syReceived, frame.p.pyToCycle)
     IN /\ bal' = Credit(Credit(Debit(bal, "SY", THIS, syToMint),
                                "PT", THIS, pyMinted),
                         "YT", THIS, pyMinted)
        /\ frame' = [frame EXCEPT !.cycle = frame.p.pyToCycle,
                                  !.syReceived = 0, !.p.pyToCycle = 0,
                                  !.syNet = @ - syToMint]
  /\ pc' = "sell"
  /\ UNCHANGED <<keeper, loop, variant, owner, allow, expired, snap, outcome>>

\* Step 2: transfer syToMint of SY to the yield token, then mintPY, which pays
\* pyMinted of PT and of YT; cycle is clamped to what was minted.
SplitMint(pyMinted) ==
  /\ pc = "split" /\ Running
  /\ LET syToMint == Min(frame.syReceived, frame.p.pyToCycle)
     IN /\ bal' = Credit(Credit(Debit(bal, "SY", THIS, syToMint),
                                "PT", THIS, pyMinted),
                         "YT", THIS, pyMinted)
        /\ frame' = [frame EXCEPT !.cycle = Min(pyMinted, frame.p.pyToCycle),
                                  !.syReceived = 0, !.p.pyToCycle = 0,
                                  !.syNet = @ - syToMint]
  /\ pc' = "sell"
  /\ UNCHANGED <<keeper, loop, variant, owner, allow, expired, snap, outcome>>

\* Mutant of SellMinSyOut: the sale must pay as much as is sold.
SellMinIsCycle == frame.cycle

\* abi.encode(0): the minimum the sale of step 3 must pay.
SellMinSyOut == 0

\* abi.encode(type(uint256).max): the most the purchase of step 4 may cost.
BuyMaxSyIn == MaxUint256

\* Step 3: IPendleMarket.swapExactPtForSy(cycle): the market takes cycle of PT
\* and pays syOut of SY, or fails when that is less than the minimum asked.
Sell(syOut) ==
  /\ pc = "sell" /\ Running
  /\ IF bal["PT"][THIS] < frame.cycle
     THEN Fail("TransferFailed") /\ frame' = [frame EXCEPT !.syNet = 0]
     ELSE IF allow["PT"][MARKET] < frame.cycle
     THEN Fail("InsufficientAllowance") /\ frame' = [frame EXCEPT !.syNet = 0]
     ELSE IF syOut < SellMinSyOut
     THEN Fail("MarketMinSyOut") /\ frame' = [frame EXCEPT !.syNet = 0]
     ELSE /\ bal' = Credit(Debit(bal, "PT", THIS, frame.cycle), "SY", THIS, syOut)
          /\ frame' = [frame EXCEPT !.syOutFromSell = syOut,
                                    !.syNet = @ + syOut]
          /\ pc' = "buy"
          /\ UNCHANGED <<owner, allow, snap, outcome>>
  /\ UNCHANGED <<keeper, loop, variant, expired>>

\* Mutant of Buy: after the buy-back the callback goes on with the unwind;
\* PT and YT are not merged.
BuySkipsMerge(syIn) ==
  /\ pc = "buy" /\ Running
  /\ frame' = [frame EXCEPT !.buyCostMore = (syIn > frame.syOutFromSell),
                            !.syOutFromSell = 0, !.cycle = 0,
                            !.syNet = IF bal["SY"][THIS] < syIn
                                      THEN 0 ELSE @ - syIn]
  /\ IF bal["SY"][THIS] < syIn
     THEN Fail("TransferFailed")
     ELSE /\ bal' = Credit(Debit(bal, "SY", THIS, syIn), "PT", THIS, frame.cycle)
          /\ pc' = "unwind"
          /\ UNCHANGED <<owner, allow, snap, outcome>>
  /\ UNCHANGED <<keeper, loop, variant, expired>>

\* Step 4: IPendleMarket.swapSyForExactPt(cycle): the market pays cycle of PT
\* and takes syIn of SY, or fails when that is more than the maximum allowed.
Buy(syIn) ==
  /\ pc = "buy" /\ Running
  /\ frame' = [frame EXCEPT !.buyCostMore = (syIn > frame.syOutFromSell),
                            !.syOutFromSell = 0, !.cycle = 0,
                            !.syNet = IF bal["SY"][THIS] < syIn
                                      THEN 0 ELSE @ - syIn]
  /\ IF syIn > BuyMaxSyIn
     THEN Fail("MarketMaxSyIn")
     ELSE IF bal["SY"][THIS] < syIn
     THEN Fail("TransferFailed")
     ELSE IF allow["SY"][MARKET] < syIn
     THEN Fail("InsufficientAllowance")
     ELSE /\ bal' = Credit(Debit(bal, "SY", THIS, syIn), "PT", THIS, frame.cycle)
          /\ pc' = "merge"
          /\ UNCHANGED <<owner, allow, snap, outcome>>
  /\ UNCHANGED <<keeper, loop, variant, expired>>

\* Step 5: IPYieldToken.redeemPY: the matching PT and YT the contract holds
\* are burnt and syOut of SY is paid.
Merge(syOut) ==
  /\ pc = "merge" /\ Running
  /\ LET burnt == Min(bal["PT"][THIS], bal["YT"][THIS])
     IN /\ syOut <= burnt
        /\ IF allow["PT"][YTADDR] < burnt
           THEN Fail("InsufficientAllowance") /\ frame' = [frame EXCEPT !.syNet = 0]
           ELSE /\ bal' = Credit(Debit(Debit(bal, "PT", THIS, burnt),
                                       "YT", THIS, burnt),
                                 "SY", THIS, syOut)
                /\ frame' = [frame EXCEPT !.syNet = @ + syOut]
                /\ pc' = "unwind"
                /\ UNCHANGED <<owner, allow, snap, outcome>>
  /\ UNCHANGED <<keeper, loop, variant, expired>>

\* Mutant of Unwind: minTokenOut is passed as 0, like the earlier steps.
UnwindZeroMinOut(quote) ==
  /\ pc = "unwind" /\ Running
  /\ bal' = Credit(Debit(bal, "SY", THIS, bal["SY"][THIS]), "U", THIS, quote)
  /\ frame' = [frame EXCEPT !.achievable = quote, !.underlyingOut = quote,
                            !.syNet = 0]
  /\ pc' = "settle"
  /\ UNCHANGED <<keeper, loop, variant, owner, allow, expired, snap, outcome>>

\* Mutant of Unwind: minTokenOut is passed as the borrowed amount.
UnwindMinIsFlashAmount(quote) ==
  /\ pc = "unwind" /\ Running
  /\ IF quote < frame.flashAmt
     THEN /\ Fail("RouterMinTokenOut")
          /\ frame' = [frame EXCEPT !.achievable = quote, !.syNet = 0]
     ELSE /\ bal' = Credit(Debit(bal, "SY", THIS, bal["SY"][THIS]),
                           "U", THIS, quote)
          /\ frame' = [frame EXCEPT !.achievable = quote,
                                    !.underlyingOut = quote, !.syNet = 0]
          /\ pc' = "settle"
          /\ UNCHANGED <<owner, allow, snap, outcome>>
  /\ UNCHANGED <<keeper, loop, variant, expired>>

\* Mutant of Unwind: syTotal is what the steps of this attempt have left, not
\* the balance.
UnwindOwnProceeds(quote) ==
  /\ pc = "unwind" /\ Running
  /\ LET syTotal == frame.syNet
     IN IF quote < frame.p.minUnderlyingOut
        THEN /\ Fail("RouterMinTokenOut")
             /\ frame' = [frame EXCEPT !.achievable = quote, !.syNet = 0]
        ELSE /\ bal' = Credit(Debit(bal, "SY", THIS, syTotal), "U", THIS, quote)
             /\ frame' = [frame EXCEPT !.achievable = quote,
                                       !.underlyingOut = quote, !.syNet = 0]
             /\ pc' = "settle"
             /\ UNCHANGED <<owner, allow, snap, outcome>>
  /\ UNCHANGED <<keeper, loop, variant, expired>>

\* Step 6: IPendleRouter.redeemSyToToken(syTotal, minTokenOut): the router
\* takes the whole SY balance; `quote` is the underlying it can pay for it
\* (kept in frame.achievable).  It pays that, or fails when that is less than
\* minTokenOut.
Unwind(quote) ==
  /\ pc = "unwind" /\ Running
  /\ LET syTotal == bal["SY"][THIS]
     IN IF allow["SY"][ROUTER] < syTotal
        THEN /\ Fail("InsufficientAllowance")
             /\ frame' = [frame EXCEPT !.syNet = 0]
        ELSE IF quote < frame.p.minUnderlyingOut
        THEN /\ Fail("RouterMinTokenOut")
             /\ frame' = [frame EXCEPT !.achievable = quote, !.syNet = 0]
        ELSE /\ bal' = Credit(Debit(bal, "SY", THIS, syTotal), "U", THIS, quote)
             /\ frame' = [frame EXCEPT !.achievable = quote,
                                       !.underlyingOut = quote, !.syNet = 0]
             /\ pc' = "settle"
             /\ UNCHANGED <<owner, allow, snap, outcome>>
  /\ UNCHANGED <<keeper, loop, variant, expired>>

\* Step 7, Balancer variant: repay by transfer, the rest is profit.
SettleBalancer ==
  LET repayAmount == frame.flashAmt + frame.fee
      profit == bal["U"][THIS] - repayAmount
  IN IF frame.underlyingOut < repayAmount
     THEN Fail("InsufficientOutput")
     ELSE IF bal["U"][THIS] < repayAmount
          THEN Fail("TransferFailed")
          ELSE IF profit = 0
               THEN Fail("NoProfit")
               ELSE /\ bal' = Transfer(Transfer(bal, "U", THIS, VAULT, repayAmount),
                                       "U", THIS, owner, profit)
                    /\ pc' = "collect"
                    /\ UNCHANGED <<owner, allow, snap, outcome>>

\* Mutant of SettleAave: the shortfall check is missing.
SettleAaveNoShortfallCheck ==
  LET repayAmount == frame.flashAmt + frame.fee
      profit == bal["U"][THIS] - repayAmount
  IN IF bal["U"][THIS] < repayAmount
     THEN Fail("Panic")
     ELSE IF profit = 0
          THEN Fail("NoProfit")
          ELSE /\ allow' = Approve(allow, "U", POOL, repayAmount)
               /\ bal' = Transfer(bal, "U", THIS, owner, profit)
               /\ pc' = "collect"
               /\ UNCHANGED <<owner, snap, outcome>>

\* Mutant of SettleAave: the pool is approved for the amount without the
\* premium.
SettleAaveApprovesAmountOnly ==
  LET repayAmount == frame.flashAmt + frame.fee
      profit == bal["U"][THIS] - repayAmount
  IN IF frame.underlyingOut < repayAmount
     THEN Fail("InsufficientOutput")
     ELSE IF bal["U"][THIS] < repayAmount
          THEN Fail("Panic")
          ELSE IF profit = 0
               THEN Fail("NoProfit")
               ELSE /\ allow' = Approve(allow, "U", POOL, frame.flashAmt)
                    /\ bal' = Transfer(bal, "U", THIS, owner, profit)
                    /\ pc' = "collect"
                    /\ UNCHANGED <<owner, snap, outcome>>

\* Mutant of SettleAave: the profit is the balance, as in the Balancer
\* variant, though nothing has been repaid yet.
SettleAaveProfitIsBalance ==
  LET repayAmount == frame.flashAmt + frame.fee
      profit == bal["U"][THIS]
  IN IF frame.underlyingOut < repayAmount
     THEN Fail("InsufficientOutput")
     ELSE IF profit = 0
          THEN Fail("NoProfit")
          ELSE /\ allow' = Approve(allow, "U", POOL, repayAmount)
               /\ bal' = Transfer(bal, "U", THIS, owner, profit)
               /\ pc' = "collect"
               /\ UNCHANGED <<owner, snap, outcome>>

\* Step 7, Aave variant: approve the pool for the repayment, the rest is
\* profit.
SettleAave ==
  LET repayAmount == frame.flashAmt + frame.fee
      profit == bal["U"][THIS] - repayAmount
  IN IF frame.underlyingOut < repayAmount
     THEN Fail("InsufficientOutput")
     ELSE IF bal["U"][THIS] < repayAmount
          THEN Fail("Panic")
          ELSE IF profit = 0
               THEN Fail("NoProfit")
               ELSE /\ allow' = Approve(allow, "U", POOL, repayAmount)
                    /\ bal' = Transfer(bal, "U", THIS, owner, profit)
                    /\ pc' = "collect"
                    /\ UNCHANGED <<owner, snap, outcome>>

Settle ==
  /\ pc = "settle" /\ Running
  /\ IF variant = "Balancer" THEN SettleBalancer ELSE SettleAave
  /\ UNCHANGED <<keeper, loop, variant, expired, frame>>

\* The callback has returned: the vault checks that it holds what it lent
\* plus the fee; the pool pulls amount + premium from the contract.
Collect ==
  /\ pc = "collect" /\ Running
  /\ LET repayAmount == frame.flashAmt + frame.fee
     IN IF variant = "Balancer"
        THEN IF bal["U"][VAULT] < snap.bal["U"][VAULT] + frame.fee
             THEN Fail("LenderRevert")
             ELSE Commit
        ELSE IF bal["U"][THIS] < repayAmount \/ allow["U"][POOL] < repayAmount
             THEN Fail("LenderRevert")
             ELSE /\ Finish("success", owner,
                            Transfer(bal, "U", THIS, POOL, repayAmount),
                            Spend(allow, "U", POOL, repayAmount))
                  /\ UNCHANGED pc
  /\ UNCHANGED <<keeper, loop, variant, expired, frame>>

\* ----------------------------------------------------------------- Next
Next ==
  \/ \E c \in Users, p \in DeployedParams, f \in 0..MaxFee :
        executeArb(c, p, f)
  \/ \E c \in Users, n \in Users \cup {ZERO} : updateOwner(c, n)
  \/ \E c \in Users, t \in Tokens, a \in 0..MaxAmt : rescueToken(c, t, a)
  \/ \E c \in Users, f \in 0..MaxFee, p \in DeployedParams :
        \E i \in {c, THIS} : DirectCallback(c, i, f, p)
  \/ \E c \in Users, p \in DeployedParams, f \in 0..MaxFee :
        ThirdPartyFlashLoan(c, p, f)
  \/ Donate("U")
  \/ Expire
  \/ EndTransaction
  \/ Authorize
  \/ ExpiryCheck
  \/ Approvals
  \/ \E syOut \in Amounts : Convert(syOut)
  \/ \E pyMinted \in Amounts : SplitMint(pyMinted)
  \/ \E syOut \in Amounts : Sell(syOut)
  \/ \E syIn \in Amounts : Buy(syIn)
  \/ \E syOut \in Amounts : Merge(syOut)
  \/ \E quote \in Amounts : Unwind(quote)
  \/ Settle
  \/ Collect

Spec == Init /\ [][Next]_vars

\* ---------------------------------------- executeArb with any parameters
\* The owner, or somebody else, calls executeArb with parameters whose lender
\* and router fields name any address; the callback runs step by step.
ParamNext ==
  \/ \E c \in Users, p \in ArbParams, f \in 0..MaxFee : executeArb(c, p, f)
  \/ EndTransaction
  \/ Authorize
  \/ ExpiryCheck
  \/ Approvals
  \/ \E syOut \in Amounts : Convert(syOut)
  \/ \E pyMinted \in Amounts : SplitMint(pyMinted)
  \/ \E syOut \in Amounts : Sell(syOut)
  \/ \E syIn \in Amounts : Buy(syIn)
  \/ \E syOut \in Amounts : Merge(syOut)
  \/ \E quote \in Amounts : Unwind(quote)
  \/ Settle
  \/ Collect

ParamSpec == Init /\ [][ParamNext]_vars

\* ------------------------------------- attempts of a contract that holds
\* The contract has been sent underlying or wrapper; the owner, or somebody
\* else, calls executeArb with the keeper's parameters.
HoldingNext ==
  \/ \E c \in Users, p \in DeployedParams, f \in 0..MaxFee :
        executeArb(c, p, f)
  \/ \E t \in {"U", "SY"} : Donate(t)
  \/ EndTransaction
  \/ Authorize
  \/ ExpiryCheck
  \/ Approvals
  \/ \E syOut \in Amounts : Convert(syOut)
  \/ \E pyMinted \in Amounts : SplitMint(pyMinted)
  \/ \E syOut \in Amounts : Sell(syOut)
  \/ \E syIn \in Amounts : Buy(syIn)
  \/ \E syOut \in Amounts : Merge(syOut)
  \/ \E quote \in Amounts : Unwind(quote)
  \/ Settle
  \/ Collect

HoldingSpec == Init /\ [][HoldingNext]_vars

\* ----------------------------------------------- the keeper's functions
\* calculateArbProfit is called on a market in some state with some size.
Evaluate(market, testSize) ==
  /\ keeper.fn = "none"
  /\ keeper' = [KeeperIdle EXCEPT
                  !.fn = "calculateArbProfit",
                  !.market = market, !.testSize = testSize,
                  !.result = calculateArbProfit(market, testSize)]
  /\ UNCHANGED <<chain, loop>>

\* findArbOpportunities is called on a list of markets.
Scan(states, threshold) ==
  /\ keeper.fn = "none"
  /\ keeper' = [KeeperIdle EXCEPT
                  !.fn = "findArbOpportunities",
                  !.markets = MarketList(states), !.threshold = threshold,
                  !.found = findArbOpportunities(MarketList(states), threshold)]
  /\ UNCHANGED <<chain, loop>>

\* The call has returned.
Return ==
  /\ keeper.fn # "none"
  /\ keeper' = KeeperIdle
  /\ UNCHANGED <<chain, loop>>

KeeperInit == Init /\ variant = "Balancer"

KeeperNext ==
  \/ \E market \in MarketStates, testSize \in Sizes : Evaluate(market, testSize)
  \/ \E n \in 0..MaxMarkets, threshold \in Thresholds :
        \E states \in [1..n -> SampleMarkets] : Scan(states, threshold)
  \/ Return

KeeperSpec == KeeperInit /\ [][KeeperNext]_vars

\* ------------------------------------------------- the keeper's process
\* Mutant of Caught: the error leaves runLoop.
Rethrown(l) == [l EXCEPT !.failed = TRUE, !.pc = "ended"]

\* An error caught inside the cycle: it is logged, and the cycle goes on to
\* its sleep.
Caught(l) == [l EXCEPT !.failed = TRUE, !.pc = "sleep"]

\* The configuration is read from the environment when the module is loaded;
\* main: keeper.initialize(), which ends the process when the wallet is not
\* the owner of the contract or no contract address is configured.
Initialize(fatal, max) ==
  /\ loop.pc = "initialize"
  /\ loop' = [loop EXCEPT !.pc = IF fatal THEN "exited" ELSE "start",
                          !.maxFlashAmount = max]
  /\ UNCHANGED <<chain, keeper>>

\* runLoop() is entered.
RunLoop ==
  /\ loop.pc = "start"
  /\ loop' = [loop EXCEPT !.isRunning = TRUE, !.pc = "top"]
  /\ UNCHANGED <<chain, keeper>>

\* while (this.isRunning): the next cycle begins, or runLoop returns.
CheckRunning ==
  /\ loop.pc = "top"
  /\ loop.isRunning => loop.cycle < MaxCycles
  /\ loop' = IF loop.isRunning
             THEN [loop EXCEPT !.pc = "fetch", !.cycle = @ + 1,
                               !.api = <<>>, !.markets = <<>>,
                               !.opportunities = <<>>, !.best = <<>>,
                               !.params = <<>>,
                               !.attempts = 0, !.failed = FALSE,
                               !.cycleAfterStop = loop.stopCalled]
             ELSE [loop EXCEPT !.pc = "ended"]
  /\ UNCHANGED <<chain, keeper>>

\* await this.fetchActiveMarkets()
FetchActiveMarkets(api, fails) ==
  /\ loop.pc = "fetch"
  /\ loop' = [loop EXCEPT !.api = api,
                          !.markets = fetchActiveMarkets(api, fails),
                          !.failed = fails,
                          !.pc = "scan"]
  /\ UNCHANGED <<chain, keeper>>

\* await this.findArbOpportunities(markets), the counter, and the choice of
\* the best opportunity.
FindArbOpportunities ==
  /\ loop.pc = "scan"
  /\ LET opps == findArbOpportunities(loop.markets, minProfitBps)
     IN loop' = [loop EXCEPT
                   !.opportunities = opps,
                   !.opportunitiesFound = @ + Len(opps),
                   !.best = IF Len(opps) > 0 THEN <<opps[1]>> ELSE <<>>,
                   !.pc = IF Len(opps) > 0 THEN "execute" ELSE "sleep"]
  /\ UNCHANGED <<chain, keeper>>

\* The parameters executeArbitrage builds for an opportunity.
Params(opp) ==
  [flashAmount |-> opp.optimalSize,
   pyToCycle |-> opp.optimalSize,
   minUnderlyingOut |-> opp.optimalSize + (opp.expectedProfit * 8) \div 10]

\* Mutant of EstimateGas: a failed estimation is logged and the attempt goes
\* on to the submission.
EstimateGasIgnoresFailure(how) ==
  /\ loop.pc = "execute"
  /\ loop' =
       CASE how = "simulated" ->
              [loop EXCEPT !.attempts = @ + 1, !.executedTrades = @ + 1,
                           !.pc = "sleep"]
         [] how = "estimateGasFails" ->
              [loop EXCEPT !.attempts = @ + 1, !.failed = TRUE,
                           !.params = <<Params(loop.best[1])>>,
                           !.pc = "send"]
         [] how = "estimated" ->
              [loop EXCEPT !.attempts = @ + 1,
                           !.params = <<Params(loop.best[1])>>,
                           !.pc = "send"]
  /\ UNCHANGED <<chain, keeper>>

\* executeArbitrage(best) up to the gas estimation.  Without a deployed
\* contract the attempt is simulated and counts as a success; otherwise the
\* parameters are built and executeArb.estimateGas(params) is awaited, whose
\* failure is caught.
EstimateGas(how) ==
  /\ loop.pc = "execute"
  /\ loop' =
       CASE how = "simulated" ->
              [loop EXCEPT !.attempts = @ + 1, !.executedTrades = @ + 1,
                           !.pc = "sleep"]
         [] how = "estimateGasFails" ->
              Caught([loop EXCEPT !.attempts = @ + 1,
                                  !.params = <<Params(loop.best[1])>>])
         [] how = "estimated" ->
              [loop EXCEPT !.attempts = @ + 1,
                           !.params = <<Params(loop.best[1])>>,
                           !.pc = "send"]
  /\ UNCHANGED <<chain, keeper>>

\* Mutant of SendTransaction: the transaction is sent and not waited for.
SendTransactionNoWait(sent) ==
  /\ loop.pc = "send"
  /\ sent
  /\ loop' = [loop EXCEPT !.pending = @ + 1, !.pc = "sleep"]
  /\ UNCHANGED <<chain, keeper>>

\* await this.arbContract.executeArb(params, ...): the transaction is
\* submitted, or the submission fails and is caught.
SendTransaction(sent) ==
  /\ loop.pc = "send"
  /\ loop' = IF sent
             THEN [loop EXCEPT !.pending = @ + 1, !.pc = "confirm"]
             ELSE Caught(loop)
  /\ UNCHANGED <<chain, keeper>>

\* Mutant of Confirm: an attempt that failed is made again.
ConfirmRetries(success) ==
  /\ loop.pc = "confirm"
  /\ loop' = IF success
             THEN [loop EXCEPT !.pending = @ - 1, !.executedTrades = @ + 1,
                               !.pc = "sleep"]
             ELSE [loop EXCEPT !.pending = @ - 1, !.failed = TRUE,
                               !.pc = "execute"]
  /\ UNCHANGED <<chain, keeper>>

\* await tx.wait(): the transaction is mined; a reverted one is a failure.
Confirm(success) ==
  /\ loop.pc = "confirm"
  /\ loop' = IF success
             THEN [loop EXCEPT !.pending = @ - 1, !.executedTrades = @ + 1,
                               !.pc = "sleep"]
             ELSE Caught([loop EXCEPT !.pending = @ - 1])
  /\ UNCHANGED <<chain, keeper>>

\* await setTimeout(config.pollingInterval)
Sleep ==
  /\ loop.pc = "sleep"
  /\ loop' = [loop EXCEPT !.pc = "top"]
  /\ UNCHANGED <<chain, keeper>>

\* stop(), called by whoever holds the keeper.
Stop ==
  /\ loop.pc \notin {"ended", "exited"}
  /\ loop' = [loop EXCEPT !.isRunning = FALSE, !.stopCalled = TRUE]
  /\ UNCHANGED <<chain, keeper>>

\* SIGINT or SIGTERM: the handler calls keeper.stop() and process.exit(0).
Signal ==
  /\ loop.pc # "exited"
  /\ loop' = [loop EXCEPT !.isRunning = FALSE, !.stopCalled = TRUE,
                          !.pc = "exited"]
  /\ UNCHANGED <<chain, keeper>>

Outcomes == {"simulated", "estimateGasFails", "estimated"}

LoopInit == Init /\ variant = "Balancer"

LoopNext ==
  \/ \E fatal \in BOOLEAN : Initialize(fatal, defaultMaxFlashAmount)
  \/ RunLoop
  \/ CheckRunning
  \/ \E api \in ApiResults, fails \in BOOLEAN : FetchActiveMarkets(api, fails)
  \/ FindArbOpportunities
  \/ \E how \in Outcomes : EstimateGas(how)
  \/ \E sent \in BOOLEAN : SendTransaction(sent)
  \/ \E success \in BOOLEAN : Confirm(success)
  \/ Sleep
  \/ Stop
  \/ Signal

LoopSpec == LoopInit /\ [][LoopNext]_vars

\* ------------------------------------ the keeper under any configuration
\* The process with MAX_FLASH_AMOUNT set or not, and an API that answers
\* with markets that are live and liquid.
LiveSamples ==
  {d \in ApiSamples :
     ~d.apiExpired /\ ~d.ytExpired /\ d.usd >= minLiquidityUsd}

LiveResults == UNION {[1..n -> LiveSamples] : n \in 0..MaxApiMarkets}

ConfigNext ==
  \/ \E fatal \in BOOLEAN, max \in MaxFlashAmounts : Initialize(fatal, max)
  \/ RunLoop
  \/ CheckRunning
  \/ \E api \in LiveResults, fails \in BOOLEAN : FetchActiveMarkets(api, fails)
  \/ FindArbOpportunities
  \/ \E how \in Outcomes : EstimateGas(how)
  \/ \E sent \in BOOLEAN : SendTransaction(sent)
  \/ \E success \in BOOLEAN : Confirm(success)
  \/ Sleep
  \/ Stop
  \/ Signal

ConfigSpec == LoopInit /\ [][ConfigNext]_vars

\* ------------------------------------------------------------ properties
\* The ledger the contract acts on.
Ledger == [owner |-> owner, bal |-> bal, allow |-> allow]
\* The transaction has changed nothing.
NoEffect == Ledger = snap
\* The callback has been entered.
InCallback == pc \notin {"idle", "entry"}
\* What the lender is owed.
RepayAmount == frame.flashAmt + frame.fee
\* What the owner received in the transaction.
OwnerGain == bal["U"][owner] - snap.bal["U"][owner]
\* The unwind (step 6) has been called.
UnwindActed == (pc = "unwind" /\ Done) \/ pc \in {"settle", "collect"}

\* C1: an attempt that fails at any step leaves the owner, every balance and
\* every allowance as they were before the call.
C1_Atomicity ==
  (Done /\ outcome # "success") => NoEffect

\* An attempt of the owner went through every step and failed at settlement.
C1_Witness ==
  /\ frame.fn = "executeArb"
  /\ pc = "settle"
  /\ outcome = "NoProfit"

\* C2: when the unwind realized less than borrowed amount + fee, the attempt
\* never gets past settlement: it ends there with InsufficientOutput and
\* without effect.
C2_Shortfall ==
  (pc \in {"settle", "collect"} /\ frame.underlyingOut < RepayAmount) =>
     /\ pc = "settle"
     /\ Running \/ (outcome = "InsufficientOutput" /\ NoEffect)

\* A shortfall after a buy-back that cost more than the sale returned.
C2_Witness ==
  /\ variant = "Aave"
  /\ pc = "settle"
  /\ outcome = "InsufficientOutput"
  /\ frame.buyCostMore

\* C3: Balancer variant: a callback whose caller is not VAULT ends at the
\* caller check with NotVault, whatever the payload, with no approval,
\* transfer or conversion made and no state changed.
C3_NotVault ==
  (variant = "Balancer" /\ InCallback /\ frame.msgSender # VAULT) =>
     /\ pc = "authorize"
     /\ NoEffect
     /\ Running \/ outcome = "NotVault"

\* A direct call of receiveFlashLoan was rejected.
C3_Witness ==
  /\ variant = "Balancer"
  /\ frame.fn = "callback"
  /\ outcome = "NotVault"
  /\ frame.p.minUnderlyingOut > 0

\* C4: Aave variant: a callback fails with Unauthorized unless the initiator
\* is the contract and the caller is the pool; no approval is granted, no
\* token of the contract moves and the failed call changes no state.
C4_Unauthorized ==
  (variant = "Aave" /\ InCallback
     /\ ~(frame.initiator = THIS /\ frame.msgSender = POOL)) =>
     /\ pc = "authorize"
     /\ allow = snap.allow
     /\ \A t \in {"SY", "PT", "YT"} : bal[t] = snap.bal[t]
     /\ Running \/ (outcome = "Unauthorized" /\ NoEffect)

\* A direct call that declares the contract as initiator was rejected for
\* its caller.
C4_Witness ==
  /\ variant = "Aave"
  /\ outcome = "Unauthorized"
  /\ frame.initiator = THIS
  /\ frame.msgSender # POOL

\* C5: executeArb, updateOwner and rescueToken called by anybody but the
\* current owner fail at entry without borrowing, moving a token or changing
\* the owner; a successful updateOwner(n) makes n the owner, so that from
\* then on n alone is accepted.
C5_OwnerOnly ==
  frame.fn \in {"executeArb", "updateOwner", "rescueToken"} =>
     /\ frame.caller # snap.owner =>
          (pc = "entry" /\ outcome = "NotOwner" /\ NoEffect)
     /\ (frame.fn = "updateOwner" /\ outcome = "success") =>
          owner = frame.newOwner

\* The deployer, having handed the contract over, is rejected.
C5_Witness ==
  /\ frame.fn = "executeArb"
  /\ frame.caller = DEPLOYER
  /\ snap.owner # DEPLOYER
  /\ outcome = "NotOwner"

\* C6: once settlement has passed, the owner of that moment has received the
\* whole underlying balance beyond the repayment, more than zero.  Balancer:
\* the vault holds what it lent plus the fee and the contract holds nothing.
\* Aave: when the callback returns the pool's allowance and the contract's
\* balance are exactly amount + premium; the pool then collects them.
C6_Settlement ==
  pc = "collect" =>
     /\ OwnerGain > 0
     /\ OwnerGain = snap.bal["U"][THIS] + frame.underlyingOut - RepayAmount
     /\ owner = snap.owner
     /\ variant = "Balancer" =>
          /\ bal["U"][VAULT] = snap.bal["U"][VAULT] + frame.fee
          /\ bal["U"][THIS] = 0
     /\ (variant = "Aave" /\ Running) =>
          /\ allow["U"][POOL] = RepayAmount
          /\ bal["U"][THIS] = RepayAmount
     /\ (variant = "Aave" /\ Done) =>
          /\ bal["U"][POOL] = snap.bal["U"][POOL] + frame.fee
          /\ bal["U"][THIS] = 0
     /\ Done => outcome = "success"

\* A successful attempt on the Aave variant that paid a premium.
C6_Witness ==
  /\ variant = "Aave"
  /\ pc = "collect"
  /\ outcome = "success"
  /\ frame.fee > 0

\* C7: an attempt whose unwind realized exactly borrowed amount + fee ends at
\* settlement with NoProfit and without effect; it never succeeds.
C7_BreakEven ==
  (pc \in {"settle", "collect"} /\ frame.underlyingOut = RepayAmount) =>
     /\ pc = "settle"
     /\ Running \/ (outcome = "NoProfit" /\ NoEffect)

\* C8: with an expired yield token the callback ends at the expiry check with
\* Expired: no approval has been granted and no SY, PT or YT has moved.
C8_Expired ==
  (expired /\ InCallback /\ pc # "authorize") =>
     /\ pc = "expiry"
     /\ allow = snap.allow
     /\ \A t \in {"SY", "PT", "YT"} : bal[t] = snap.bal[t]
     /\ Running \/ (outcome = "Expired" /\ NoEffect)

\* An attempt of the owner was stopped by the expiry check.
C8_Witness ==
  /\ frame.fn = "executeArb"
  /\ expired
  /\ outcome = "Expired"

\* C9 as stated: an attempt whose minUnderlyingOut exceeds the achievable
\* output of the unwind fails with InsufficientOutput.
C9_Original ==
  (UnwindActed /\ frame.p.minUnderlyingOut > frame.achievable) =>
     (Done /\ outcome = "InsufficientOutput")

\* C9 amended: such an attempt ends inside the router's redeemSyToToken with
\* the router's minimum-output failure, and without effect; the contract's
\* InsufficientOutput is raised only for an output that passed
\* minUnderlyingOut and is below the repayment.
C9_RouterMinOut ==
  /\ (UnwindActed /\ frame.p.minUnderlyingOut > frame.achievable) =>
        (pc = "unwind" /\ outcome = "RouterMinTokenOut" /\ NoEffect)
  /\ outcome = "InsufficientOutput" =>
        /\ frame.underlyingOut >= frame.p.minUnderlyingOut
        /\ frame.underlyingOut < RepayAmount

\* The router refused an output that would have covered the repayment.
C9_Witness ==
  /\ pc = "unwind"
  /\ outcome = "RouterMinTokenOut"
  /\ frame.achievable >= RepayAmount
  /\ frame.p.minUnderlyingOut > frame.achievable

\* C10: an attempt that passed settlement had an unwind output of at least
\* minUnderlyingOut and at least borrowed amount + fee; and an attempt that
\* reaches the unwind with minUnderlyingOut below the achievable output, and
\* that output above borrowed amount + fee, succeeds with a profit above
\* zero sent to the owner.
C10_SlippageGuard ==
  /\ pc = "collect" =>
        /\ frame.underlyingOut >= frame.p.minUnderlyingOut
        /\ frame.underlyingOut >= RepayAmount
  /\ (UnwindActed /\ frame.p.minUnderlyingOut < frame.achievable
        /\ frame.achievable > RepayAmount /\ Done) =>
        (outcome = "success" /\ OwnerGain > 0)

\* A success under a minUnderlyingOut that demands at least the repayment.
C10_Witness ==
  /\ frame.fn = "executeArb"
  /\ outcome = "success"
  /\ frame.p.minUnderlyingOut >= RepayAmount
  /\ frame.p.minUnderlyingOut < frame.achievable

C12_UpdateOwner ==
  (frame.fn = "updateOwner" /\ frame.caller = snap.owner) =>
     /\ frame.newOwner = ZERO =>
          (outcome = "InvalidOwner" /\ owner = snap.owner /\ NoEffect)
     /\ frame.newOwner # ZERO =>
          /\ outcome = "success"
          /\ owner = frame.newOwner
          /\ bal = snap.bal
          /\ allow = snap.allow

\* The owner tried to hand the contract to address(0).
C12_Witness ==
  /\ frame.fn = "updateOwner"
  /\ frame.caller = snap.owner
  /\ frame.newOwner = ZERO
  /\ outcome = "InvalidOwner"

\* The steps of the callback in the order of the code: caller check, expiry
\* check, approvals, steps 1 to 7, and the lender taking its repayment.
StepOrder ==
  <<"authorize", "expiry", "approve", "convert", "split", "sell", "buy",
    "merge", "unwind", "settle", "collect">>

\* C13: a call moves through the steps only forward and one at a time:
\* authorize, expiry check, (approvals,) convert, split-mint, sell, buy-back,
\* merge, unwind, settle.  The pass starts at the first step, from outside a
\* transaction only; a step is left only for the next one while the attempt is
\* running; the attempt that has ended stays at its step until the
\* transaction is over.  So no step is skipped, repeated or entered again
\* within a call.
C13_ForwardPass ==
  [][pc' # pc =>
       \/ pc = "idle" /\ pc' \in {"entry", StepOrder[1]}
       \/ Done /\ pc' = "idle"
       \/ /\ Running /\ outcome' = "pending"
          /\ \E i \in 1..(Len(StepOrder) - 1) :
                pc = StepOrder[i] /\ pc' = StepOrder[i + 1]]_vars

\* An attempt of the owner on the Balancer variant went through every step.
C13_Witness ==
  /\ variant = "Balancer"
  /\ frame.fn = "executeArb"
  /\ pc = StepOrder[Len(StepOrder)]
  /\ outcome = "success"

\* C14 as stated, first half: the outcome of an attempt does not rely on
\* balances held before it.  An attempt that reached settlement succeeds
\* exactly when its unwind paid more than borrowed amount + fee, whatever the
\* contract held when it started.
C14_NoReliance ==
  (InCallback /\ Done /\ pc \in {"settle", "collect"}) =>
     (outcome = "success" <=> frame.underlyingOut > RepayAmount)

\* C29 as stated, for the Balancer variant: a callback that is past the
\* caller check belongs to a borrow started by executeArb, which the owner
\* alone can call; a flash loan that a third party asked the vault for, with
\* the contract as recipient, ends at the caller check.
C29_OwnerInitiated ==
  (variant = "Balancer" /\ InCallback /\ pc # "authorize") =>
     (frame.fn = "executeArb" /\ frame.caller = snap.owner)

\* The PT the contract holds.
HeldPT == bal["PT"][THIS]

Estimated ==
  /\ keeper.fn = "calculateArbProfit"
  /\ keeper.result.at \in {"spread", "cost", "gas", "end"}

\* findArbOpportunities has returned.
Scanned == keeper.fn = "findArbOpportunities"

\* C15 as stated: for a size above zero and reserves above zero the estimated
\* sell output syFromSell is above zero and strictly below
\* size * syReserve / ptReserve, the output at the price before the trade.
C15_PriceImpact ==
  (Estimated /\ keeper.testSize > 0 /\ keeper.market.sy > 0
     /\ keeper.market.pt > 0) =>
     /\ keeper.result.syFromSell > 0
     /\ keeper.result.syFromSell * keeper.market.pt
          < keeper.testSize * keeper.market.sy

\* C16: calculateArbProfit returns null or an expectedProfit above zero, which
\* is the sell output less the buy-back cost, the mint/redeem cost and the
\* gas estimate; it returns null whenever the sell output does not exceed the
\* buy-back cost, or the profit does not exceed the mint/redeem cost, or the
\* profit after gas is not above zero, and whenever the market cannot be read.
C16_NoNegativeEstimate ==
  keeper.fn = "calculateArbProfit" =>
     LET r == keeper.result
         sell == syFromSell(keeper.market.sy, keeper.market.pt, keeper.testSize)
         buy == syForBuy(keeper.market.sy, keeper.market.pt, keeper.testSize)
         cost == mintRedeemCost(keeper.testSize)
     IN /\ r.found => r.expectedProfit > 0
        /\ ~keeper.market.readable => ~r.found
        /\ Estimated =>
             /\ (sell <= buy \/ sell - buy <= cost
                   \/ sell - buy - cost - gasEstimate <= 0) => ~r.found
             /\ r.found => r.expectedProfit = sell - buy - cost - gasEstimate

\* A profit above the mint/redeem cost that the gas estimate eats up.
C16_Witness ==
  /\ keeper.fn = "calculateArbProfit"
  /\ keeper.result.at = "gas"
  /\ keeper.result.netProfit > 0
  /\ ~keeper.result.found

\* C18: on a market whose two reserves are equal calculateArbProfit returns
\* null for every size above zero, at the comparison of the two legs: the
\* sell output is at most the size and the buy-back cost at least the size.
\* The scanner, under any threshold, emits nothing for such a market.
C18_CostFloor ==
  /\ (keeper.fn = "calculateArbProfit" /\ keeper.market.readable
        /\ keeper.market.sy = keeper.market.pt /\ keeper.testSize > 0) =>
        /\ ~keeper.result.found
        /\ keeper.result.at = "spread"
        /\ keeper.result.syFromSell <= keeper.testSize
        /\ keeper.testSize <= keeper.result.syForBuy
  /\ Scanned =>
        \A i \in DOMAIN keeper.markets :
           keeper.markets[i].sy = keeper.markets[i].pt =>
              \A j \in DOMAIN keeper.found : keeper.found[j].market # i

\* Equal reserves of 40000 and the largest size of the ladder.
C18_Witness ==
  /\ keeper.fn = "calculateArbProfit"
  /\ keeper.market.readable
  /\ keeper.market.sy = keeper.market.pt
  /\ keeper.market.sy = 40000
  /\ keeper.testSize = testSizes[Len(testSizes)]
  /\ ~keeper.result.found

\* The estimate of the k-th size of the ladder on market m.
Rung(m, k) == calculateArbProfit(m, testSizes[k])

\* The sizes of the ladder that meet the threshold on market m.
Eligible(m) ==
  {k \in DOMAIN testSizes :
     Rung(m, k).found /\ Rung(m, k).profitBps >= keeper.threshold}

\* C19: findArbOpportunities emits at most one opportunity per market; none
\* for a market on which no size of the ladder meets the threshold; otherwise
\* the opportunity of a size that meets it, whose expectedProfit no other
\* size meeting it exceeds, and which is the first of the sizes reaching that
\* expectedProfit.
C19_Selection ==
  Scanned =>
     \A i \in DOMAIN keeper.markets :
        LET m == keeper.markets[i]
            mine == {j \in DOMAIN keeper.found : keeper.found[j].market = i}
        IN /\ Cardinality(mine) <= 1
           /\ Eligible(m) = {} => mine = {}
           /\ Eligible(m) # {} =>
                \E j \in mine, k \in Eligible(m) :
                   /\ keeper.found[j] = Opportunity(m, testSizes[k], Rung(m, k))
                   /\ \A k2 \in Eligible(m) :
                         /\ Rung(m, k2).expectedProfit <= Rung(m, k).expectedProfit
                         /\ Rung(m, k2).expectedProfit = Rung(m, k).expectedProfit
                              => k <= k2

\* A market on which two sizes meet the threshold with the same
\* expectedProfit: the smaller, tried first, was emitted.
C19_Witness ==
  /\ Scanned
  /\ \E i \in DOMAIN keeper.markets, j \in DOMAIN keeper.found :
        \E k \in Eligible(keeper.markets[i]), k2 \in Eligible(keeper.markets[i]) :
           /\ k < k2
           /\ Rung(keeper.markets[i], k).expectedProfit
                = Rung(keeper.markets[i], k2).expectedProfit
           /\ keeper.found[j].market = i
           /\ keeper.found[j].optimalSize = testSizes[k]

\* C20: the list findArbOpportunities returns holds the best opportunity of
\* every market that has one, in descending order of expectedProfit;
\* opportunities of equal expectedProfit are in the order of their markets in
\* the input.
C20_Ranking ==
  Scanned =>
     /\ Len(keeper.found)
          = Len(opportunities(keeper.markets, keeper.threshold, 1))
     /\ \A i \in DOMAIN keeper.found, j \in DOMAIN keeper.found :
           i < j =>
              /\ keeper.found[i].expectedProfit >= keeper.found[j].expectedProfit
              /\ keeper.found[i].expectedProfit = keeper.found[j].expectedProfit
                   => keeper.found[i].market < keeper.found[j].market

\* Three opportunities: a later market ranked before an earlier one, and two
\* of equal expectedProfit.
C20_Witness ==
  /\ Scanned
  /\ Len(keeper.found) = 3
  /\ \E i \in 1..2 : keeper.found[i].market > keeper.found[i + 1].market
  /\ \E i \in 1..2 :
        keeper.found[i].expectedProfit = keeper.found[i + 1].expectedProfit

\* The list without its i-th market.
Without(markets, i) ==
  [j \in 1..(Len(markets) - 1) |-> IF j < i THEN markets[j] ELSE markets[j + 1]]

\* The opportunities found on Without(markets, i), under the addresses the
\* markets have in the whole list.
Readdress(found, i) ==
  [j \in DOMAIN found |->
     [found[j] EXCEPT !.market = IF @ >= i THEN @ + 1 ELSE @]]

\* A scan of a list with a market that cannot be read has returned.
ScannedUnreadable(i) ==
  /\ Scanned
  /\ i \in DOMAIN keeper.markets
  /\ ~keeper.markets[i].readable

\* C23: a market whose state cannot be read yields no opportunity, and the
\* scan returns for the other markets of the list what the scan of the list
\* without that market returns.
C23_ScanIsolation ==
  \A i \in 1..MaxMarkets :
     ScannedUnreadable(i) =>
        /\ \A j \in DOMAIN keeper.found : keeper.found[j].market # i
        /\ keeper.found =
             Readdress(findArbOpportunities(
                         MarketList(Without(keeper.markets, i)),
                         keeper.threshold), i)

\* The first market of the list cannot be read and a later one has an
\* opportunity.
C23_Witness ==
  /\ ScannedUnreadable(1)
  /\ Len(keeper.found) > 0


\* ------------------------------------- properties of the keeper's process
\* The markets of the API answer for which the cycle has produced an
\* opportunity or made an attempt.
Produced ==
  {loop.opportunities[j].market : j \in DOMAIN loop.opportunities}
    \cup {loop.best[j].market : j \in DOMAIN loop.best}

\* C21 as stated: in every cycle the markets for which opportunities are
\* produced, the market of the attempt among them, are markets of the answer
\* that are not expired, by the date of the answer and by the yield token,
\* also when the yield token's isExpired() cannot be called.
C21_NoExpired ==
  \A a \in Produced :
     /\ a \in DOMAIN loop.api
     /\ ~loop.api[a].apiExpired
     /\ ~loop.api[a].ytExpired

\* C22: a market of the answer whose liquidity is below minLiquidityUsd is
\* not in the market list of the cycle, so that no opportunity is produced
\* and no attempt made for it.
C22_LiquidityFloor ==
  /\ \A i \in DOMAIN loop.markets :
        loop.api[loop.markets[i].address].usd >= minLiquidityUsd
  /\ \A a \in Produced : loop.api[a].usd >= minLiquidityUsd

\* The answer held a market below the floor, which would have been the best,
\* and an attempt is made for another one.
C22_Witness ==
  /\ loop.pc = "execute"
  /\ \E i \in DOMAIN loop.api :
        /\ loop.api[i].usd < minLiquidityUsd
        /\ ~loop.api[i].apiExpired /\ ~loop.api[i].ytExpired
        /\ bestOpp(Market(loop.api, i), minProfitBps, 1, <<>>) # <<>>
        /\ bestOpp(Market(loop.api, i), minProfitBps, 1, <<>>)[1].expectedProfit
             > loop.best[1].expectedProfit

\* C24: a cycle makes at most one execution attempt; the attempt is for the
\* first opportunity of the list that the scan of this cycle returned for
\* the markets this cycle fetched; a cycle whose scan returned nothing makes
\* none; after a failed attempt the cycle goes to its sleep.
C24_OneAttempt ==
  /\ loop.attempts <= 1
  /\ loop.opportunities = <<>> => (loop.attempts = 0 /\ loop.best = <<>>)
  /\ (loop.attempts = 1 \/ loop.pc \in {"execute", "send", "confirm"}) =>
        /\ loop.opportunities = findArbOpportunities(loop.markets, minProfitBps)
        /\ \A i \in DOMAIN loop.markets :
              loop.markets[i].address \in DOMAIN loop.api
        /\ loop.best = <<loop.opportunities[1]>>
  /\ loop.pc = "execute" => loop.attempts = 0
  /\ loop.pc \in {"send", "confirm"} => loop.attempts = 1

\* The attempt for the best of two opportunities failed and the cycle sleeps.
C24_Witness ==
  /\ loop.pc = "sleep"
  /\ loop.attempts = 1
  /\ loop.failed
  /\ Len(loop.opportunities) > 1
  /\ loop.cycle > 1

\* C25: at most one transaction is outstanding, and while one is, runLoop
\* waits for it (or the process has ended); a cycle begins only at the top of
\* the loop, after the sleep of the one before, with nothing outstanding.
C25_NoOverlap ==
  /\ [](/\ loop.pending <= 1
        /\ loop.pending = 1 => loop.pc \in {"confirm", "exited"})
  /\ [][loop'.cycle # loop.cycle =>
          /\ loop.pc = "top"
          /\ loop.pending = 0
          /\ loop'.cycle = loop.cycle + 1
          /\ loop'.pc = "fetch"]_vars

\* The second cycle waits for its transaction.
C25_Witness ==
  /\ loop.pc = "confirm"
  /\ loop.pending = 1
  /\ loop.cycle = 2

\* C26 as stated: once stop() has been called, at whatever moment, no cycle
\* begins any more.
C26_CooperativeStop == ~loop.cycleAfterStop

\* C27 as stated: when the keeper has ended, after a signal or otherwise, no
\* execution attempt is left without its outcome.
C27_InFlight == loop.pc \in {"ended", "exited"} => loop.pending = 0

\* C28: runLoop returns only when the running flag has been cleared by
\* stop(); a failure inside a cycle (of the market fetch, of the gas
\* estimation, of the submission, a reverted transaction) counts no trade and
\* leaves the cycle on its way to the sleep; and from the sleep the loop goes
\* to its top, from where, the flag being set, the next cycle begins.
C28_LoopSurvives ==
  /\ [](loop.pc = "ended" => (~loop.isRunning /\ loop.stopCalled))
  /\ [][(loop'.failed /\ ~loop.failed) =>
          /\ loop'.executedTrades = loop.executedTrades
          /\ loop'.pc \in {"scan", "sleep"}
          /\ loop'.pc = "scan" => loop'.markets = <<>>]_vars
  /\ [][(loop.pc = "sleep" /\ loop'.pc # "sleep") =>
          loop'.pc \in {"top", "exited"}]_vars
  /\ [][(loop.pc = "top" /\ loop.isRunning /\ loop'.pc # "top") =>
          loop'.pc \in {"fetch", "exited"}]_vars

\* The first cycle found an opportunity and its attempt failed; the second
\* cycle has begun.
C28_Witness ==
  /\ loop.cycle = 2
  /\ loop.pc = "fetch"
  /\ loop.opportunitiesFound > 0
  /\ loop.executedTrades = 0
  /\ loop.isRunning


\* ------------------------------------------ properties of the later steps
\* The callback has passed step 6 and has not reverted.
Unwound == pc \in {"settle", "collect"} /\ outcome \in {"pending", "success"}

\* C31 as stated: when step 6 is reached, the wrapper balance of the contract
\* is the sum of what steps 1 to 5 left (the wrapper not split, the sell
\* proceeds less the buy-back cost, the redeemed amount), and after step 6 the
\* balance is zero.
C31_Original ==
  /\ (pc = "unwind" /\ Running) => bal["SY"][THIS] = frame.syNet
  /\ Unwound => bal["SY"][THIS] = 0

\* C31, amended: when step 6 is reached, the wrapper balance of the contract
\* is what it held when the transaction began plus the sum of what steps 1 to
\* 5 left; step 6 converts all of it, and after step 6 the balance is zero.
C31_FullUnwind ==
  /\ (pc = "unwind" /\ Running) =>
        bal["SY"][THIS] = snap.bal["SY"][THIS] + frame.syNet
  /\ Unwound => bal["SY"][THIS] = 0

\* The contract held wrapper before the attempt, and step 6 has converted it
\* with the rest.
C31_Witness ==
  /\ pc = "settle" /\ Running
  /\ snap.bal["SY"][THIS] > 0
  /\ bal["SY"][THIS] = 0
  /\ frame.underlyingOut > 0


\* The failures of the bounds the callback passes to the external calls and of
\* its own guards.
OwnChecks ==
  {"RouterMinSyOut", "MarketMinSyOut", "MarketMaxSyIn", "RouterMinTokenOut",
   "InsufficientOutput", "NoProfit"}

\* C32: steps 1, 3 and 4 are called with minimum 0, minimum 0 and maximum
\* type(uint256).max; whatever amounts steps 1 to 5 return, no bound and no
\* guard of the attempt fails before step 6: such a failure is at the unwind
\* or at the settlement.
C32_NoEarlyBound ==
  /\ MinSyOut = 0
  /\ SellMinSyOut = 0
  /\ BuyMaxSyIn = MaxUint256
  /\ (Done /\ outcome \in OwnChecks) => pc \in {"unwind", "settle"}
  /\ (Done /\ outcome \in {"InsufficientOutput", "NoProfit"}) => pc = "settle"

\* Step 3 has paid nothing for the PT it took, and the attempt goes on to the
\* purchase of step 4.
C32_Witness ==
  /\ pc = "buy" /\ Running
  /\ frame.fn = "executeArb"
  /\ frame.cycle > 0
  /\ frame.syOutFromSell = 0


\* The six spender relationships of the approvals: token, spender.
SixApprovals ==
  {<<"SY", YTADDR>>, <<"PT", YTADDR>>, <<"PT", MARKET>>, <<"SY", MARKET>>,
   <<"SY", ROUTER>>, <<"U", ROUTER>>}

\* The allowances of the six relationships.
Granted(al) == [r \in SixApprovals |-> al[r[1]][r[2]]]

\* The steps of the callback that follow the approvals.
AfterApprovals ==
  {"convert", "split", "sell", "buy", "merge", "unwind", "settle", "collect"}

\* C33: once a callback has passed the caller check and the expiry check, and
\* before its first conversion, each of the six relationships has the maximum
\* allowance; no step fails for lack of allowance; and within the callback no
\* step but the approvals writes any of the six.
C33_Approvals ==
  /\ []((Running /\ pc \in AfterApprovals)
          => \A r \in SixApprovals : Granted(allow)[r] = MaxUint256)
  /\ [](outcome # "InsufficientAllowance")
  /\ [][(Running /\ outcome' \in {"pending", "success"}
           /\ Granted(allow') # Granted(allow))
          => (pc = "approve" /\ pc' = "convert"
              /\ \A r \in SixApprovals : Granted(allow')[r] = MaxUint256)]_vars

\* The contract had granted nothing before; the callback has approved the six
\* and has gone through every step that draws on them up to the settlement.
C33_Witness ==
  /\ pc = "settle" /\ Running
  /\ \A r \in SixApprovals : Granted(snap.allow)[r] = 0
  /\ \A r \in SixApprovals : Granted(allow)[r] = MaxUint256
  /\ frame.underlyingOut > 0


\* How step 7 can end: with one of its failures, or by going on ("pending").
SettleKinds == {"InsufficientOutput", "TransferFailed", "Panic", "NoProfit",
                "pending"}

\* C34: from one and the same state before step 7 (same parameters, same
\* balances, same amounts returned by the router, the yield token and the
\* market), step 7 of the Balancer variant and step 7 of the Aave variant end
\* the same way and, when they go on, pay the owner the same profit; when the
\* callback has returned, the lender holds its repayment (Balancer) or can
\* draw it (Aave), and it does not reject the loan; and in both variants an
\* attempt the owner started with executeArb passes the caller check.
C34_Variants ==
  /\ (pc = "settle" /\ Running) =>
        /\ \A kind \in SettleKinds :
              ENABLED (SettleBalancer /\ outcome' = kind)
                <=> ENABLED (SettleAave /\ outcome' = kind)
        /\ \A profit \in 0..bal["U"][THIS] :
              ENABLED (SettleBalancer /\ pc' = "collect"
                       /\ bal'["U"][owner] = bal["U"][owner] + profit)
                <=> ENABLED (SettleAave /\ pc' = "collect"
                             /\ bal'["U"][owner] = bal["U"][owner] + profit)
  /\ (pc = "collect" /\ Running) =>
        IF variant = "Balancer"
        THEN bal["U"][VAULT] = snap.bal["U"][VAULT] + frame.fee
        ELSE /\ bal["U"][THIS] >= RepayAmount
             /\ allow["U"][POOL] >= RepayAmount
  /\ Done => outcome # "LenderRevert"
  /\ (Done /\ frame.fn = "executeArb" /\ pc # "entry") =>
        outcome \notin {"NotVault", "Unauthorized"}

\* An attempt of the Aave variant has ended well and has paid the owner, having
\* started with underlying in the contract.
C34_Witness ==
  /\ variant = "Aave"
  /\ pc = "collect" /\ outcome = "success"
  /\ frame.fn = "executeArb"
  /\ snap.bal["U"][THIS] > 0
  /\ frame.fee > 0
  /\ OwnerGain > 0


\* C37: in both variants the owner is never address(0); it is the deployer
\* until it changes, and it changes only in a successful updateOwner called
\* by the owner of the time, to the argument of that call, which is not
\* address(0); no other call, reverted or not, changes it.
C37_OwnerNonzero ==
  /\ [](owner # ZERO /\ owner \in Users)
  /\ [][owner' # owner =>
          /\ pc = "idle"
          /\ frame'.fn = "updateOwner"
          /\ outcome' = "success"
          /\ frame'.caller = owner
          /\ frame'.newOwner # ZERO
          /\ owner' = frame'.newOwner]_vars

\* The owner of the time has handed the contract over, and the new owner has
\* run an attempt with success.
C37_Witness ==
  /\ owner # DEPLOYER
  /\ frame.fn = "executeArb"
  /\ frame.caller = owner
  /\ outcome = "success"


\* C38: whatever lender and router the parameters of executeArb name, the
\* loan is asked of the lender of the deployed contract, which is the caller
\* of the callback and passes its caller check; the router of the deployed
\* contract is the one approved for the underlying and the wrapper and the one
\* the two conversions draw through, and no address the parameters name is
\* approved for anything.
C38_FixedAddresses ==
  /\ \A t \in Tokens : allow[t][ROGUE] = 0
  /\ (frame.fn = "executeArb" /\ pc # "entry") =>
        /\ frame.msgSender = Lender
        /\ frame.initiator = THIS
        /\ outcome \notin {"NotVault", "Unauthorized"}
        /\ (outcome \in {"pending", "success"} /\ pc \in {"split", "sell", "buy", "merge", "unwind"})
             => bal["U"][Lender] = snap.bal["U"][Lender] - frame.flashAmt
  /\ (Running /\ pc \in AfterApprovals) =>
        /\ allow["U"][ROUTER] = MaxUint256
        /\ allow["SY"][ROUTER] = MaxUint256

\* The parameters named another lender and another router, and the attempt
\* has borrowed from the deployed lender, converted through the deployed
\* router and ended with a profit.
C38_Witness ==
  /\ frame.fn = "executeArb"
  /\ frame.p.vault = ROGUE
  /\ frame.p.router = ROGUE
  /\ outcome = "success"
  /\ OwnerGain > 0


\* ------------------------------- properties of the keeper's executions
\* C35: a transaction is submitted only from the point executeArbitrage
\* reaches when the gas estimation for the parameters it has built has
\* succeeded, and with those parameters; when the estimation fails, nothing
\* is submitted, the attempt is a failure, the cycle goes to its sleep and
\* executedTrades stays as it was.
C35_EstimateFirst ==
  /\ [](loop.pending > 0 =>
          (loop.params = <<Params(loop.best[1])>> /\ loop.attempts = 1))
  /\ [](loop.pc = "send" => (loop.params = <<Params(loop.best[1])>> /\ ~loop.failed))
  /\ [][loop'.pending > loop.pending =>
          (loop.pc = "send" /\ ~loop.failed /\ loop'.params = loop.params)]_vars
  /\ [][(loop.pc = "execute" /\ loop'.failed) =>
          /\ loop'.pending = 0
          /\ loop'.pc = "sleep"
          /\ loop'.executedTrades = loop.executedTrades]_vars
  /\ [][(loop.pc = "sleep" /\ loop.failed) =>
          (loop'.pending = 0 /\ loop'.executedTrades = loop.executedTrades)]_vars

\* The gas estimation of the second cycle's attempt has failed; the first
\* cycle's transaction had been confirmed.
C35_Witness ==
  /\ loop.cycle = 2
  /\ loop.pc = "sleep"
  /\ loop.failed
  /\ loop.params # <<>>
  /\ loop.executedTrades = 1
  /\ loop.pending = 0

\* C36 as stated: the flashAmount of the parameters of every attempt is at
\* most the configured MAX_FLASH_AMOUNT.
C36_FlashCap ==
  \A i \in DOMAIN loop.params :
     loop.params[i].flashAmount <= loop.maxFlashAmount

\* C39 as stated: the counters never decrease; in a cycle opportunitiesFound
\* grows, once, by the length of the list the scan returned, and
\* executedTrades by at most one; executedTrades grows only when a submitted
\* transaction is confirmed with status 1.
C39_Counters ==
  /\ [][/\ loop'.opportunitiesFound >= loop.opportunitiesFound
        /\ loop'.executedTrades >= loop.executedTrades]_vars
  /\ [][loop'.opportunitiesFound # loop.opportunitiesFound =>
          /\ loop.pc = "scan"
          /\ loop'.opportunitiesFound
               = loop.opportunitiesFound + Len(loop'.opportunities)]_vars
  /\ [][loop'.executedTrades # loop.executedTrades =>
          /\ loop'.executedTrades = loop.executedTrades + 1
          /\ loop'.attempts = 1
          /\ loop'.cycle = loop.cycle
          /\ ~loop'.failed]_vars
  /\ [][loop'.executedTrades # loop.executedTrades =>
          /\ loop.pc = "confirm"
          /\ loop.pending = 1
          /\ loop'.pending = 0]_vars

====
